---- MODULE Spec2Model ----
\* Model of the dash-indexer ingest pipeline: the restart supervisor (run), one
\* subscription session (stream_once), the per-transaction processor (handle_tx)
\* and the three persistence operations of db.rs.
EXTENDS Integers, Sequences, FiniteSets, TLC

\* ---------------------------------------------------------------- options
\* Option<T>: None is the empty tuple, Some(v) the one-element tuple.
None == <<>>
Some(v) == <<v>>
IsSome(o) == o # None
Unwrap(o) == o[1]
\* An update that takes the incoming value as it is.
TakeIncoming(a, b) == a

\* SQL COALESCE(a, b) over nullable values.
Coalesce(a, b) == IF IsSome(a) THEN a ELSE b

SeqsUpTo(S, n) == UNION {[1..k -> S] : k \in 0..n}
Range(s) == {s[i] : i \in 1..Len(s)}

\* ---------------------------------------------------------------- base-58
\* bs58::encode(bytes).into_string(): leading zero bytes become '1', the rest is
\* the big-endian number written in base 58 with the Bitcoin alphabet.
Bs58Alphabet ==
  << "1","2","3","4","5","6","7","8","9","A","B","C","D","E","F","G","H","J",
     "K","L","M","N","P","Q","R","S","T","U","V","W","X","Y","Z","a","b","c",
     "d","e","f","g","h","i","j","k","m","n","o","p","q","r","s","t","u","v",
     "w","x","y","z" >>

RECURSIVE StripZeros(_)
StripZeros(bytes) ==
  IF bytes # <<>> /\ Head(bytes) = 0 THEN StripZeros(Tail(bytes)) ELSE bytes

RECURSIVE LeadingZeros(_)
LeadingZeros(bytes) ==
  IF bytes # <<>> /\ Head(bytes) = 0 THEN 1 + LeadingZeros(Tail(bytes)) ELSE 0

\* One long division of a base-256 number by 58: quotient digits and remainder.
RECURSIVE DivMod58(_, _, _)
DivMod58(bytes, quot, rem) ==
  IF bytes = <<>> THEN [q |-> quot, r |-> rem]
  ELSE LET cur == rem * 256 + Head(bytes)
       IN  DivMod58(Tail(bytes), Append(quot, cur \div 58), cur % 58)

RECURSIVE Bs58Digits(_)
Bs58Digits(bytes) ==
  IF bytes = <<>> THEN ""
  ELSE LET d == DivMod58(bytes, <<>>, 0)
       IN  Bs58Digits(StripZeros(d.q)) \o Bs58Alphabet[d.r + 1]

RECURSIVE Ones(_)
Ones(n) == IF n = 0 THEN "" ELSE "1" \o Ones(n - 1)

Bs58Encode(bytes) == Ones(LeadingZeros(bytes)) \o Bs58Digits(StripZeros(bytes))

\* ---------------------------------------------------------------- noise programs
\* A noise set that lacks the legacy memo program.
is_noise_program_id_no_legacy_memo(pid) ==
  pid \in { "11111111111111111111111111111111",
            "ComputeBudget111111111111111111111111111111",
            "TokenkegQfeZyiNwAJbNbGKPFXCWuBvf9Ss623VQ5DA",
            "MemoSq4gqABAXKb96qnH8TysNcWxMyWCqXgDLGmfcHr",
            "MEViEnscUm6tsQRoGd9h6nLQaQspKj7DB2M5FwM3Xvz" }

\* ingest.rs 53-69
is_noise_program_id(pid) ==
  pid \in { "11111111111111111111111111111111",
            "ComputeBudget111111111111111111111111111111",
            "TokenkegQfeZyiNwAJbNbGKPFXCWuBvf9Ss623VQ5DA",
            "MemoSq4gqABAXKb96qnH8TysNcWxMyWCqXgDLGmfcHr",
            "Memo1UhkJRfHyvLMcVucJwxXeuD728EqVDDwQDxFMNo",
            "MEViEnscUm6tsQRoGd9h6nLQaQspKj7DB2M5FwM3Xvz" }

\* 32-byte account keys: the six noise programs and two other programs
\* (Raydium AMM v4 and Jupiter v6).
KeySystem == <<0,0,0,0,0,0,0,0,0,0,0,0,0,0,0,0,0,0,0,0,0,0,0,0,0,0,0,0,0,0,0,0>>
KeyComputeBudget ==
  <<3,6,70,111,229,33,23,50,255,236,173,186,114,195,155,231,188,140,229,187,197,
    247,18,107,44,67,155,58,64,0,0,0>>
KeyToken ==
  <<6,221,246,225,215,101,161,147,217,203,225,70,206,235,121,172,28,180,133,237,
    95,91,55,145,58,140,245,133,126,255,0,169>>
KeyMemo ==
  <<5,74,83,90,153,41,33,6,77,36,232,113,96,218,56,124,124,53,181,221,188,146,
    187,129,228,31,168,64,65,5,68,141>>
KeyMemoLegacy ==
  <<5,74,83,80,248,93,200,130,214,20,165,86,114,120,138,41,109,223,30,171,171,
    208,166,6,120,136,73,50,244,238,246,160>>
KeyBot ==
  <<5,46,224,3,4,219,58,21,23,178,129,159,29,78,65,62,165,235,115,243,243,162,
    61,228,39,160,92,120,85,75,23,67>>
KeyRaydium ==
  <<75,217,73,196,54,2,195,63,32,119,144,237,22,163,82,76,161,185,151,92,241,33,
    162,169,12,255,236,125,248,182,138,205>>
KeyJupiter ==
  <<4,121,213,91,249,236,155,64,27,81,80,87,100,164,251,183,7,129,37,45,169,151,
    72,94,240,85,226,251,225,63,27,6>>

NoiseKeys == {KeySystem, KeyComputeBudget, KeyToken, KeyMemo, KeyMemoLegacy, KeyBot}
OtherKeys == {KeyRaydium, KeyJupiter}
AccountKeys == NoiseKeys \cup OtherKeys

\* The encodings of the keys above, computed once.
Bs58Table == [k \in AccountKeys |-> Bs58Encode(k)]
Pid(key) == IF key \in DOMAIN Bs58Table THEN Bs58Table[key] ELSE Bs58Encode(key)

\* ---------------------------------------------------------------- log lines
\* A log line is a string; it is modelled as the sequence of the fragments it is
\* made of, and String::contains as contiguous-subsequence search.
FragSwap == "Instruction: Swap"
FragBaseInput == "BaseInput"
FragTransferChecked == "Instruction: TransferChecked"
FragNegative == "No profitable arbitrage opportunity found"
Fragments == {FragSwap, FragBaseInput, FragTransferChecked, FragNegative}

PatNegative == <<FragNegative>>
PatSwap == <<FragSwap>>
PatSwapBaseInput == <<FragSwap, FragBaseInput>>
PatTransferChecked == <<FragTransferChecked>>

Contains(line, pat) ==
  \E i \in 0..(Len(line) - Len(pat)) :
    \A j \in 1..Len(pat) : line[i + j] = pat[j]

\* ingest.rs 180-186: the first loop, leaving at the first negative line.
RECURSIVE SawNegative(_)
SawNegative(log_messages) ==
  IF log_messages = <<>> THEN FALSE
  ELSE IF Contains(Head(log_messages), PatNegative) THEN TRUE
  ELSE SawNegative(Tail(log_messages))

\* ingest.rs 191-199: the second loop, which scans every line.
RECURSIVE SawPoolActivity(_, _)
SawPoolActivity(log_messages, saw) ==
  IF log_messages = <<>> THEN saw
  ELSE LET l == Head(log_messages)
           hit == \/ Contains(l, PatSwap)
                  \/ Contains(l, PatSwapBaseInput)
                  \/ Contains(l, PatTransferChecked)
       IN  SawPoolActivity(Tail(log_messages), IF hit THEN TRUE ELSE saw)

\* A classifier that looks for the positive signal first.
ClassifyArbitragePositiveFirst(meta) ==
  IF ~IsSome(meta) THEN None
  ELSE IF SawPoolActivity(Unwrap(meta).log_messages, FALSE) THEN Some(TRUE)
  ELSE IF SawNegative(Unwrap(meta).log_messages) THEN Some(FALSE)
  ELSE None

\* ingest.rs 161, 178-204: arbitrage_success for an optional meta.
ClassifyArbitrage(meta) ==
  IF ~IsSome(meta) THEN None
  ELSE IF SawNegative(Unwrap(meta).log_messages) THEN Some(FALSE)
  ELSE IF SawPoolActivity(Unwrap(meta).log_messages, FALSE) THEN Some(TRUE)
  ELSE None

\* ---------------------------------------------------------------- aggregation
\* ingest.rs 159-176: program_counts, a map from program id to count, built by
\* one pass over the instructions. program_id_index is zero-based.
Bump(counts, pid) ==
  IF pid \in DOMAIN counts
  THEN [counts EXCEPT ![pid] = @ + 1]
  ELSE [p \in (DOMAIN counts) \cup {pid} |-> IF p = pid THEN 1 ELSE counts[p]]

RECURSIVE CountPrograms(_, _, _)
CountPrograms(account_keys, instructions, counts) ==
  IF instructions = <<>> THEN counts
  ELSE LET idx == Head(instructions).program_id_index
           rest == Tail(instructions)
       IN  IF idx < Len(account_keys)
           THEN LET pid == Pid(account_keys[idx + 1])
                IN  IF is_noise_program_id(pid)
                    THEN CountPrograms(account_keys, rest, counts)
                    ELSE CountPrograms(account_keys, rest, Bump(counts, pid))
           ELSE CountPrograms(account_keys, rest, counts)

EmptyCounts == [p \in {} |-> 0]

\* ---------------------------------------------------------------- error labels
\* format!("{:?}", bytes) for a byte slice: "[1, 2]".
RECURSIVE JoinBytes(_)
JoinBytes(bytes) ==
  IF bytes = <<>> THEN ""
  ELSE IF Len(bytes) = 1 THEN ToString(Head(bytes))
  ELSE ToString(Head(bytes)) \o ", " \o JoinBytes(Tail(bytes))

DebugBytes(bytes) == "[" \o JoinBytes(bytes) \o "]"

\* bincode::deserialize::<TransactionError>: a little-endian u32 variant tag
\* followed by the variant's fields. Only unit variants are modelled, and only
\* payloads of ErrPayloads are ever decoded.
UnitVariants ==
  [t \in {0, 1, 2, 4} |->
     CASE t = 0 -> "AccountInUse"
       [] t = 1 -> "AccountLoadedTwice"
       [] t = 2 -> "AccountNotFound"
       [] t = 4 -> "InsufficientFundsForFee"]

DeserializeTransactionError(bytes) ==
  IF /\ Len(bytes) >= 4
     /\ bytes[2] = 0 /\ bytes[3] = 0 /\ bytes[4] = 0
     /\ bytes[1] \in DOMAIN UnitVariants
  THEN Some(UnitVariants[bytes[1]])
  ELSE None

\* ingest.rs 126-132
classify_error_bytes(bytes) ==
  LET tx_err == DeserializeTransactionError(bytes)
  IN  IF IsSome(tx_err) THEN Unwrap(tx_err)
      ELSE "Unknown(" \o DebugBytes(bytes) \o ")"

\* A label that is empty when the error payload is.
ErrorLabelOfBytes(e) ==
  IF e.err # <<>> THEN classify_error_bytes(e.err) ELSE ""

\* ingest.rs 142-145: the label of a present meta.err.
ErrorLabel(e) ==
  IF e.err # <<>> THEN classify_error_bytes(e.err)
  ELSE "TransactionError { err: " \o DebugBytes(e.err) \o " }"

\* ---------------------------------------------------------------- handle_tx, pure part
\* A processor that takes absent metadata for a failure.
OutcomeOfStrict(meta) ==
  IF IsSome(meta)
  THEN LET m == Unwrap(meta)
       IN  [success |-> ~IsSome(m.err),
            fee_lamports |-> m.fee,
            compute_units |-> m.compute_units_consumed,
            error_type |-> IF IsSome(m.err) THEN Some(ErrorLabel(Unwrap(m.err))) ELSE None]
  ELSE [success |-> FALSE, fee_lamports |-> 0, compute_units |-> None,
        error_type |-> Some("no metadata")]

\* ingest.rs 134-149
OutcomeOf(meta) ==
  IF IsSome(meta)
  THEN LET m == Unwrap(meta)
       IN  [success |-> ~IsSome(m.err),
            fee_lamports |-> m.fee,
            compute_units |-> m.compute_units_consumed,
            error_type |-> IF IsSome(m.err) THEN Some(ErrorLabel(Unwrap(m.err))) ELSE None]
  ELSE [success |-> TRUE, fee_lamports |-> 0, compute_units |-> None, error_type |-> None]

\* The message of the inner transaction, when both are present.
MessageOf(wrapped) ==
  IF IsSome(wrapped.transaction) THEN Unwrap(wrapped.transaction).message ELSE None

\* ingest.rs 150-157
FeePayerOf(wrapped) ==
  LET msg == MessageOf(wrapped)
  IN  IF IsSome(msg) /\ Unwrap(msg).account_keys # <<>>
      THEN Pid(Unwrap(msg).account_keys[1])
      ELSE ""

\* ingest.rs 159-176
ProgramCountsOf(wrapped) ==
  LET msg == MessageOf(wrapped)
  IN  IF IsSome(msg)
      THEN CountPrograms(Unwrap(msg).account_keys, Unwrap(msg).instructions, EmptyCounts)
      ELSE EmptyCounts

\* ingest.rs 123-204: every local of handle_tx before the block-time lookup.
Locals(tx_update) ==
  LET wrapped == Unwrap(tx_update.transaction)
      o == OutcomeOf(wrapped.meta)
  IN  [signature_b58 |-> Bs58Encode(wrapped.signature),
       slot |-> tx_update.slot,
       success |-> o.success,
       fee_lamports |-> o.fee_lamports,
       compute_units |-> o.compute_units,
       error_type |-> o.error_type,
       fee_payer_b58 |-> FeePayerOf(wrapped),
       program_counts |-> ProgramCountsOf(wrapped),
       arbitrage_success |-> ClassifyArbitrage(wrapped.meta),
       block_time |-> None]

\* ---------------------------------------------------------------- persistence
\* A table is the set of its rows. t is the value NOW() takes in the statement.
BurnRow(a, t) ==
  [signature |-> a.signature_b58,
   slot |-> a.slot,
   success |-> a.success,
   fee_lamports |-> a.fee_lamports,
   fee_payer |-> a.fee_payer_b58,
   block_time |-> a.block_time,
   compute_units |-> a.compute_units,
   arbitrage_success |-> a.arbitrage_success,
   ingest_ts |-> t]

\* An upsert whose update also refreshes ingest_ts.
upsert_burn_rows_touch(rows, a, t) ==
  IF \E r \in rows : r.signature = a.signature_b58
  THEN { IF r.signature = a.signature_b58
         THEN [BurnRow(a, t) EXCEPT
                 !.block_time = Coalesce(a.block_time, r.block_time),
                 !.compute_units = Coalesce(a.compute_units, r.compute_units),
                 !.arbitrage_success = Coalesce(a.arbitrage_success, r.arbitrage_success)]
         ELSE r : r \in rows }
  ELSE rows \cup {BurnRow(a, t)}

\* An upsert whose update merges the optional fields only (the row keeps the
\* slot, success, fee_lamports and fee_payer it was inserted with).
upsert_burn_rows_first_wins(rows, a, t) ==
  IF \E r \in rows : r.signature = a.signature_b58
  THEN { IF r.signature = a.signature_b58
         THEN [r EXCEPT !.block_time = Coalesce(a.block_time, r.block_time),
                        !.compute_units = Coalesce(a.compute_units, r.compute_units),
                        !.arbitrage_success =
                            Coalesce(a.arbitrage_success, r.arbitrage_success)]
         ELSE r : r \in rows }
  ELSE rows \cup {BurnRow(a, t)}

\* db.rs 89-98
upsert_burn_rows(rows, a, t) ==
  IF \E r \in rows : r.signature = a.signature_b58
  THEN { IF r.signature = a.signature_b58
         THEN [r EXCEPT !.slot = a.slot,
                        !.success = a.success,
                        !.fee_lamports = a.fee_lamports,
                        !.fee_payer = a.fee_payer_b58,
                        !.block_time = Coalesce(a.block_time, r.block_time),
                        !.compute_units = Coalesce(a.compute_units, r.compute_units),
                        !.arbitrage_success =
                            Coalesce(a.arbitrage_success, r.arbitrage_success)]
         ELSE r : r \in rows }
  ELSE rows \cup {BurnRow(a, t)}

\* An upsert that keeps a stored error_type (a merge in the manner of burns).
upsert_tx_failure_rows_merge(rows, signature, error_type, slot, ts, t) ==
  LET new == [signature |-> signature, error_type |-> error_type, slot |-> slot,
              ts |-> Unwrap(Coalesce(ts, Some(t)))]
  IN  IF \E r \in rows : r.signature = signature
      THEN { IF r.signature = signature
             THEN [r EXCEPT !.slot = new.slot, !.ts = new.ts]
             ELSE r : r \in rows }
      ELSE rows \cup {new}

\* db.rs 129-134
upsert_tx_failure_rows(rows, signature, error_type, slot, ts, t) ==
  LET new == [signature |-> signature, error_type |-> error_type, slot |-> slot,
              ts |-> Unwrap(Coalesce(ts, Some(t)))]
  IN  IF \E r \in rows : r.signature = signature
      THEN { IF r.signature = signature
             THEN [r EXCEPT !.error_type = new.error_type,
                            !.slot = new.slot,
                            !.ts = new.ts]
             ELSE r : r \in rows }
      ELSE rows \cup {new}

\* db.rs 154-157: one execution of the statement, for one (program_id, count).
upsert_tx_instruction_rows(rows, signature, program_id, count) ==
  IF \E r \in rows : r.signature = signature /\ r.program_id = program_id
  THEN { IF r.signature = signature /\ r.program_id = program_id
         THEN [r EXCEPT !.num_instructions = count]
         ELSE r : r \in rows }
  ELSE rows \cup { [signature |-> signature, program_id |-> program_id,
                    num_instructions |-> count] }

\* db.rs 160-165: the statement executed for the entries ps of program_counts.
\* The keys of the entries differ, so their order does not matter.
RECURSIVE upsert_tx_instructions_rows(_, _, _, _)
upsert_tx_instructions_rows(rows, signature, program_counts, ps) ==
  IF ps = {} THEN rows
  ELSE LET p == CHOOSE q \in ps : TRUE
       IN  upsert_tx_instructions_rows(
             upsert_tx_instruction_rows(rows, signature, p, program_counts[p]),
             signature, program_counts, ps \ {p})

\* ---------------------------------------------------------------- state
VARIABLES
  pc,              \* where the ingest task is: an await point of run / stream_once / handle_tx
  attempts,        \* stream_once calls started so far (counted up to MaxAttempts)
  session_end,     \* how the last session ended: "none", "closed", "connect", "subscribe", "read"
  delay,           \* the Duration given to the current sleep, in seconds
  elapsed,         \* seconds of the current sleep that have passed
  update,          \* the message stream.next() returned last, in this session
  sent,            \* requests written to subscribe_tx since that message was read
  handle_result,   \* the result of handle_tx for that message: "none", "Ok", or the error
  tx,              \* the locals of the running handle_tx
  todo,            \* entries upsert_tx_instructions has still to write
  burns, tx_failures, tx_instructions,  \* the three tables
  main_pc          \* where main is: "ctrl_c" (awaiting the signal), "join", "returned"

vars == << pc, main_pc, attempts, session_end, delay, elapsed, update, sent, handle_result,
           tx, todo, burns, tx_failures, tx_instructions >>

sessionVars == << attempts, session_end, delay, elapsed >>
dbVars == << burns, tx_failures, tx_instructions >>

\* ---------------------------------------------------------------- bounds and inputs
MaxAttempts == 2
MaxLogLines == 2
MaxLineLen == 2
MaxKeys == 2
MaxInstr == 2

\* Values NOW() can take in a statement, and values getBlockTime can return.
Instants == {100, 200}
BlockTimes == {11, 12}
SigBytes == {<<1>>, <<2>>}

NoUpdate == [kind |-> "none"]
NoTx == [signature_b58 |-> ""]

Meta(err, fee, cu, logs) ==
  [err |-> err, fee |-> fee, compute_units_consumed |-> cu, log_messages |-> logs]
Message(keys, instrs) == [account_keys |-> keys, instructions |-> instrs]
Instr(i) == [program_id_index |-> i]
Info(sig, meta, inner) == [signature |-> sig, meta |-> meta, transaction |-> inner]
TxUpdate(slot, info) ==
  [kind |-> "transaction", tx |-> [transaction |-> info, slot |-> slot]]

\* The transaction messages the session specification delivers.
SessionMetas ==
  { None,
    Some(Meta(None, 5000, None, <<>>)),
    Some(Meta(Some([err |-> <<4, 0, 0, 0>>]), 5000, None, <<>>)) }
SessionInners ==
  { None, Some([message |-> Some(Message(<<KeyBot, KeyRaydium>>, <<Instr(1)>>))]) }
SessionUpdates ==
  {TxUpdate(7, None)} \cup
  {TxUpdate(7, Some(Info(<<1>>, m, i))) : m \in SessionMetas, i \in SessionInners}

\* ---------------------------------------------------------------- run
\* A supervisor that backs off with the number of attempts.
RestartDelayBackoff(result, n) == IF result = "Ok" THEN 2 ELSE 5 * n

\* ingest.rs 19-27: the Duration slept after a session result.
RestartDelay(result, n) == IF result = "Ok" THEN 2 ELSE 5

ResultOf(cause) == IF cause = "closed" THEN "Ok" ELSE "Err"

\* stream_once returns to run, which picks the sleep. ingest.rs 19-28
EndSession(cause) ==
  /\ session_end' = cause
  /\ delay' = RestartDelay(ResultOf(cause), attempts)
  /\ elapsed' = 0
  /\ pc' = "sleep"
  /\ update' = NoUpdate
  /\ sent' = <<>>
  /\ handle_result' = "none"
  /\ UNCHANGED << main_pc, attempts, tx, todo, dbVars >>

\* One second of the sleep passes.
SleepTick ==
  /\ pc = "sleep" /\ elapsed < delay
  /\ elapsed' = elapsed + 1
  /\ UNCHANGED << pc, main_pc, attempts, session_end, delay, update, sent, handle_result,
                  tx, todo, dbVars >>

\* A supervisor with a maximum retry count.
GivesUpAtMax(n) == n >= MaxAttempts

\* ingest.rs 18: whether the loop is left. It has no break and no return.
GivesUp(n) == FALSE

\* The sleep is over and the loop calls stream_once again. ingest.rs 18-19
Wake ==
  /\ pc = "sleep" /\ elapsed = delay
  /\ IF GivesUp(attempts)
     THEN pc' = "returned" /\ UNCHANGED attempts
     ELSE pc' = "connect" /\ attempts' = IF attempts < MaxAttempts THEN attempts + 1 ELSE attempts
  /\ UNCHANGED << main_pc, session_end, delay, elapsed, update, sent, handle_result,
                  tx, todo, dbVars >>

\* ---------------------------------------------------------------- stream_once
\* ingest.rs 72: build_client(...).await?
Connect ==
  /\ pc = "connect"
  /\ \/ /\ pc' = "subscribe"
        /\ UNCHANGED << main_pc, sessionVars, update, sent, handle_result, tx, todo, dbVars >>
     \/ EndSession("connect")

\* ingest.rs 91: client.subscribe_with_request(...).await?
Subscribe ==
  /\ pc = "subscribe"
  /\ \/ /\ pc' = "next"
        /\ UNCHANGED << main_pc, sessionVars, update, sent, handle_result, tx, todo, dbVars >>
     \/ EndSession("subscribe")

\* ingest.rs 97, 118: stream.next() is None, stream_once returns Ok(()).
StreamClosed == pc = "next" /\ EndSession("closed")

\* ingest.rs 98: msg? on a read error.
StreamError == pc = "next" /\ EndSession("read")

\* A message loop that reads on while the message before is still in process.
ReceiveEarly(u, next) ==
  /\ pc \in {"next", "fetch_block_time", "upsert_burn", "upsert_tx_failure",
             "upsert_tx_instructions", "execute_instruction"}
  /\ update' = u
  /\ sent' = <<>>
  /\ handle_result' = "none"
  /\ pc' = next
  /\ UNCHANGED << main_pc, sessionVars, tx, todo, dbVars >>

\* ingest.rs 97-99: stream.next() yields message u; the match arm leads to next.
Receive(u, next) ==
  /\ pc = "next"
  /\ update' = u
  /\ sent' = <<>>
  /\ handle_result' = "none"
  /\ pc' = next
  /\ UNCHANGED << main_pc, sessionVars, tx, todo, dbVars >>

\* ingest.rs 100
RecvTransaction(U) == \E u \in U : Receive(u, "handle_tx")
\* ingest.rs 105
RecvPing == Receive([kind |-> "ping"], "pong")
\* ingest.rs 114
RecvOther == Receive([kind |-> "other"], "next")

\* A pong that echoes no fixed id.
PongRequestZero == [ping |-> Some([id |-> 0])]

\* ingest.rs 107-110
PongRequest == [ping |-> Some([id |-> 1])]

\* ingest.rs 106-112: what the loop does with the result of the send.
AfterPong(ok) == "continue"

\* ingest.rs 106-112: the send of the pong, which may fail.
SendPong ==
  /\ pc = "pong"
  /\ \E ok \in BOOLEAN :
       IF AfterPong(ok) = "continue"
       THEN /\ sent' = Append(sent, [request |-> PongRequest, ok |-> ok])
            /\ pc' = "next"
            /\ UNCHANGED << main_pc, sessionVars, update, handle_result, tx, todo, dbVars >>
       ELSE EndSession("write")

\* ---------------------------------------------------------------- handle_tx
IsErr(result) == result \notin {"none", "Ok"}

\* A message loop that applies ? to handle_tx.
AfterHandleTxPropagate(result) == IF IsErr(result) THEN "propagate" ELSE "continue"

\* ingest.rs 101-103: what the loop does with the result of handle_tx.
AfterHandleTx(result) == "continue"

\* A processor that repeats a failed call: it stays at the call that failed.
ReturnRetrying(result) ==
  IF IsErr(result)
  THEN /\ handle_result' = result
       /\ UNCHANGED << pc, main_pc, sessionVars, update, sent, tx, todo >>
  ELSE /\ handle_result' = result
       /\ pc' = "next"
       /\ tx' = NoTx
       /\ todo' = {}
       /\ UNCHANGED << main_pc, sessionVars, update, sent >>

\* handle_tx returns result to the message loop.
Return(result) ==
  IF AfterHandleTx(result) = "continue"
  THEN /\ handle_result' = result
       /\ pc' = "next"
       /\ tx' = NoTx
       /\ todo' = {}
       /\ UNCHANGED << main_pc, sessionVars, update, sent >>
  ELSE /\ session_end' = "handle_tx"
       /\ delay' = RestartDelay(ResultOf("handle_tx"), attempts)
       /\ elapsed' = 0
       /\ pc' = "sleep"
       /\ update' = NoUpdate
       /\ sent' = <<>>
       /\ handle_result' = result
       /\ tx' = NoTx
       /\ todo' = {}
       /\ UNCHANGED << attempts, main_pc >>

\* A processor that reports a message without payload as an error.
MalformedResultErr == "Err: no transaction"

\* ingest.rs 122: the result of handle_tx for a message without payload.
MalformedResult == "Ok"

\* ingest.rs 122-204: the early exit, or every local up to the lookup.
HandleTxCompute ==
  /\ pc = "handle_tx"
  /\ IF ~IsSome(update.tx.transaction)
     THEN Return(MalformedResult) /\ UNCHANGED dbVars
     ELSE /\ tx' = Locals([transaction |-> update.tx.transaction, slot |-> update.tx.slot])
          /\ pc' = "fetch_block_time"
          /\ UNCHANGED << main_pc, sessionVars, update, sent, handle_result, todo, dbVars >>

\* What the round trip of fetch_block_time can do: the send fails, the status
\* is not a success, the body does not parse, result is null, or result is t
\* (a t outside the range of DateTime is "convert").
FetchOutcomes ==
  { [kind |-> k] : k \in {"transport", "status", "parse", "no result", "convert"} }
  \cup { [kind |-> "result", ts |-> t] : t \in BlockTimes }

\* ingest.rs 249-271: the Result of fetch_block_time.
fetch_block_time(outcome) ==
  IF outcome.kind = "result" THEN [ok |-> TRUE, value |-> outcome.ts] ELSE [ok |-> FALSE]

\* Result::ok()
ResultOk(res) == IF res.ok THEN Some(res.value) ELSE None

\* A processor that applies ? to the lookup.
FetchFailurePropagates(res) == ~res.ok

\* ingest.rs 205: whether a failed lookup ends handle_tx. It is dropped by .ok().
FetchFailureEnds(res) == FALSE

\* ingest.rs 205: the lookup, once, and block_time from its result.
FetchBlockTime ==
  /\ pc = "fetch_block_time"
  /\ \E o \in FetchOutcomes :
       LET res == fetch_block_time(o)
       IN  IF FetchFailureEnds(res)
           THEN Return("Err: fetch_block_time") /\ UNCHANGED dbVars
           ELSE /\ tx' = [tx EXCEPT !.block_time = ResultOk(res)]
                /\ pc' = "upsert_burn"
                /\ UNCHANGED << main_pc, sessionVars, update, sent, handle_result, todo, dbVars >>

\* ingest.rs 232-245: the persistence step that follows a written burn row.
WritesFailure(l) == ~l.success /\ IsSome(l.error_type)
WritesInstructions(l) == DOMAIN l.program_counts # {}

\* ingest.rs 220-231, db.rs 86-116: the call fails before it writes, or upserts.
UpsertBurn ==
  /\ pc = "upsert_burn"
  /\ \/ Return("Err: upsert_burn") /\ UNCHANGED dbVars
     \/ /\ \E t \in Instants : burns' = upsert_burn_rows(burns, tx, t)
        /\ UNCHANGED << tx_failures, tx_instructions >>
        /\ IF WritesFailure(tx)
           THEN /\ pc' = "upsert_tx_failure"
                /\ UNCHANGED << main_pc, sessionVars, update, sent, handle_result, tx, todo >>
           ELSE IF WritesInstructions(tx)
           THEN /\ pc' = "upsert_tx_instructions"
                /\ UNCHANGED << main_pc, sessionVars, update, sent, handle_result, tx, todo >>
           ELSE Return("Ok")

\* ingest.rs 233-237, db.rs 126-140
UpsertTxFailure ==
  /\ pc = "upsert_tx_failure"
  /\ \/ Return("Err: upsert_tx_failure") /\ UNCHANGED dbVars
     \/ /\ \E t \in Instants :
             tx_failures' = upsert_tx_failure_rows(tx_failures, tx.signature_b58,
                               Unwrap(tx.error_type), tx.slot, tx.block_time, t)
        /\ UNCHANGED << burns, tx_instructions >>
        /\ IF WritesInstructions(tx)
           THEN /\ pc' = "upsert_tx_instructions"
                /\ UNCHANGED << main_pc, sessionVars, update, sent, handle_result, tx, todo >>
           ELSE Return("Ok")

\* ingest.rs 239-244, db.rs 148-159: the connection and the prepared statement.
UpsertTxInstructions ==
  /\ pc = "upsert_tx_instructions"
  /\ UNCHANGED dbVars
  /\ \/ Return("Err: prepare")
     \/ /\ todo' = DOMAIN tx.program_counts
        /\ pc' = "execute_instruction"
        /\ UNCHANGED << main_pc, sessionVars, update, sent, handle_result, tx >>

\* db.rs 160-165: one pass of the loop, over the entries in the map's order.
ExecuteInstruction ==
  /\ pc = "execute_instruction"
  /\ \/ Return("Err: execute") /\ UNCHANGED dbVars
     \/ \E p \in todo :
          /\ tx_instructions' = upsert_tx_instruction_rows(tx_instructions,
                                   tx.signature_b58, p, tx.program_counts[p])
          /\ UNCHANGED << burns, tx_failures >>
          /\ IF todo = {p}
             THEN Return("Ok")
             ELSE /\ todo' = todo \ {p}
                  /\ UNCHANGED << pc, main_pc, sessionVars, update, sent, handle_result, tx >>

\* ---------------------------------------------------------------- main
\* main.rs 25-30: main awaits ctrl_c (a signal, or the error of installing the
\* handler, both dropped by .ok()), then awaits the JoinHandle of the ingest
\* task, which completes only when run has returned.
Main ==
  /\ \/ main_pc = "ctrl_c" /\ main_pc' = "join"
     \/ main_pc = "join" /\ pc = "returned" /\ main_pc' = "returned"
  /\ UNCHANGED << pc, sessionVars, update, sent, handle_result, tx, todo, dbVars >>

\* ---------------------------------------------------------------- specification
\* main.rs 23: the task is spawned with the tables as they are; they start empty.
Init ==
  /\ pc = "connect"
  /\ main_pc = "ctrl_c"
  /\ attempts = 1
  /\ session_end = "none"
  /\ delay = 0
  /\ elapsed = 0
  /\ update = NoUpdate
  /\ sent = <<>>
  /\ handle_result = "none"
  /\ tx = NoTx
  /\ todo = {}
  /\ burns = {}
  /\ tx_failures = {}
  /\ tx_instructions = {}

HandleTx ==
  \/ HandleTxCompute
  \/ FetchBlockTime
  \/ UpsertBurn
  \/ UpsertTxFailure
  \/ UpsertTxInstructions
  \/ ExecuteInstruction

Next ==
  \/ Connect
  \/ Subscribe
  \/ StreamClosed
  \/ StreamError
  \/ RecvTransaction(SessionUpdates)
  \/ RecvPing
  \/ RecvOther
  \/ SendPong
  \/ HandleTx
  \/ SleepTick
  \/ Wake

Spec == Init /\ [][Next]_vars

\* The timer of tokio::time::sleep fires and the runtime resumes the task.
FairSpec == Spec /\ WF_vars(SleepTick) /\ WF_vars(Wake)

\* ---------------------------------------------------------------- handle_tx on its own
\* The task stands at the call of handle_tx with message u, nothing stored yet.
InitHandleTx(u) ==
  /\ pc = "handle_tx"
  /\ main_pc = "ctrl_c"
  /\ attempts = 1
  /\ session_end = "none"
  /\ delay = 0
  /\ elapsed = 0
  /\ update = u
  /\ sent = <<>>
  /\ handle_result = "none"
  /\ tx = NoTx
  /\ todo = {}
  /\ burns = {}
  /\ tx_failures = {}
  /\ tx_instructions = {}

\* Log lines of up to MaxLineLen fragments, logs of up to MaxLogLines lines.
Lines == SeqsUpTo(Fragments, MaxLineLen)
Logs == SeqsUpTo(Lines, MaxLogLines)
ClassifyUpdates ==
  {TxUpdate(7, Some(Info(<<1>>, None, None)))} \cup
  {TxUpdate(7, Some(Info(<<1>>, Some(Meta(None, 5000, None, logs)), None))) : logs \in Logs}

\* handle_tx classifies one message with any log.
SpecClassify == (\E u \in ClassifyUpdates : InitHandleTx(u)) /\ [][HandleTxCompute]_vars

\* Key lists of up to MaxKeys keys, instruction lists of up to MaxInstr
\* instructions whose index may lie past the end of the key list.
KeyLists == SeqsUpTo(AccountKeys, MaxKeys)
InstrLists == SeqsUpTo({Instr(i) : i \in 0..MaxKeys}, MaxInstr)
AggregateUpdates ==
  {TxUpdate(7, Some(Info(<<1>>, None, Some([message |-> Some(Message(keys, instrs))])))) :
     keys \in KeyLists, instrs \in InstrLists}

\* handle_tx aggregates the instructions of one message.
SpecAggregate == (\E u \in AggregateUpdates : InitHandleTx(u)) /\ [][HandleTxCompute]_vars

\* ---------------------------------------------------------------- the burns table on its own
\* The arguments of upsert_burn: three observations of the fields that are never
\* null, every combination of the nullable ones. A second signature is written
\* with one fixed observation.
Observations ==
  { [slot |-> 7, success |-> TRUE, fee_lamports |-> 0, fee_payer_b58 |-> ""],
    [slot |-> 8, success |-> FALSE, fee_lamports |-> 5000, fee_payer_b58 |-> Pid(KeyBot)],
    [slot |-> 8, success |-> TRUE, fee_lamports |-> 5000, fee_payer_b58 |-> ""] }
OptTimes == {None} \cup {Some(t) : t \in BlockTimes}
OptUnits == {None, Some(300), Some(400)}
OptBools == {None, Some(TRUE), Some(FALSE)}

BurnArgsOf(sig, o, bt, cu, arb) ==
  [signature_b58 |-> Pid(sig), slot |-> o.slot, success |-> o.success,
   fee_lamports |-> o.fee_lamports, compute_units |-> cu,
   fee_payer_b58 |-> o.fee_payer_b58, arbitrage_success |-> arb, block_time |-> bt]

BurnArgs ==
  {BurnArgsOf(<<1>>, o, bt, cu, arb) :
     o \in Observations, bt \in OptTimes, cu \in OptUnits, arb \in OptBools}
  \cup {BurnArgsOf(<<2>>, CHOOSE o \in Observations : o.slot = 7, None, None, None)}

InitDb ==
  /\ pc = "db"
  /\ main_pc = "ctrl_c"
  /\ attempts = 1
  /\ session_end = "none"
  /\ delay = 0
  /\ elapsed = 0
  /\ update = NoUpdate
  /\ sent = <<>>
  /\ handle_result = "none"
  /\ tx = NoTx
  /\ todo = {}
  /\ burns = {}
  /\ tx_failures = {}
  /\ tx_instructions = {}

\* db.rs 75-117: a call of upsert_burn that returns Ok. tx keeps its arguments.
CallUpsertBurn ==
  /\ pc = "db"
  /\ \E a \in BurnArgs, t \in Instants :
       /\ tx' = a
       /\ burns' = upsert_burn_rows(burns, a, t)
  /\ handle_result' = "Ok"
  /\ UNCHANGED << pc, main_pc, sessionVars, update, sent, todo, tx_failures, tx_instructions >>

\* db.rs 86, 100, 115: the pool, the prepare or the execute fails; nothing is
\* written, whatever the arguments were, and they are not kept.
CallUpsertBurnFails ==
  /\ pc = "db"
  /\ tx' = NoTx
  /\ handle_result' = "Err: upsert_burn"
  /\ UNCHANGED << pc, main_pc, sessionVars, update, sent, todo, dbVars >>

SpecBurns == InitDb /\ [][CallUpsertBurn \/ CallUpsertBurnFails]_vars

\* ---------------------------------------------------------------- C1
ExpectedDelay(cause) == IF cause = "closed" THEN 2 ELSE 5

\* C1: a session that ends without error (upstream closed) is followed by a sleep
\* of exactly 2 seconds, a session that ends with an error by a sleep of exactly
\* 5 seconds, whatever the number of attempts; the next session starts only
\* when exactly that time has passed.
C1_RestartDelays ==
  [][ /\ (pc # "sleep" /\ pc' = "sleep") =>
           /\ session_end' \in {"closed", "connect", "subscribe", "read"}
           /\ delay' = ExpectedDelay(session_end') /\ elapsed' = 0
      /\ (pc = "sleep" /\ pc' = "sleep") =>
           /\ delay' = delay /\ session_end' = session_end /\ elapsed' = elapsed + 1
      /\ (pc = "sleep" /\ pc' # "sleep") =>
           /\ pc' = "connect" /\ elapsed = ExpectedDelay(session_end) ]_vars

\* A second session failed at the read and its 5 second sleep is over.
C1_Witness ==
  pc = "connect" /\ attempts = MaxAttempts /\ session_end = "read" /\ elapsed = 5

\* ---------------------------------------------------------------- C2
\* C2: run never returns, and after every session end a new session attempt is
\* eventually started, however many attempts came before.
C2_NeverGivesUp ==
  /\ [](pc # "returned")
  /\ [](pc = "sleep" => <>(pc = "connect"))

\* A further attempt starts after the connect of the attempt before failed, with
\* the attempt count at its cap.
C2_Witness ==
  pc = "connect" /\ attempts = MaxAttempts /\ session_end = "connect" /\ elapsed = 5

\* ---------------------------------------------------------------- C3
\* C3: when handle_tx fails, at whichever step, the session has not ended: the
\* task is back at the read of the same session and the next message can be
\* read and handed to handle_tx.
C3_FailureIsolated ==
  IsErr(handle_result) =>
    /\ pc = "next"
    /\ update.kind = "transaction"
    /\ ENABLED RecvTransaction(SessionUpdates)

\* handle_tx failed in the instruction loop, after the burn row was written.
C3_Witness ==
  handle_result = "Err: execute" /\ pc = "next" /\ burns # {}

\* ---------------------------------------------------------------- C4
\* C4: a pong is written only for a ping; once a ping is read, exactly one pong
\* with ping id 1 has been written on the session by the time the task is back
\* at the read.
C4_OnePongPerPing ==
  /\ pc = "pong" => update.kind = "ping" /\ sent = <<>>
  /\ (pc = "next" /\ update.kind = "ping") =>
        Len(sent) = 1 /\ sent[1].request = [ping |-> Some([id |-> 1])]
  /\ update.kind # "ping" => sent = <<>>

C4_Witness ==
  pc = "next" /\ update.kind = "ping" /\ Len(sent) = 1 /\ sent[1].ok

\* ---------------------------------------------------------------- C5
\* C5: a failed write of the pong ends the session with an error (and the long
\* wait): the message loop is never back at the read after a failed write.
C5_PongFailureEndsSession ==
  \A i \in DOMAIN sent : ~sent[i].ok => pc = "sleep" /\ delay = 5

\* ---------------------------------------------------------------- C6
HasNegative(l) == Contains(l, <<FragNegative>>)
HasPositive(l) ==
  \/ Contains(l, <<FragSwap>>)
  \/ Contains(l, <<FragSwap, FragBaseInput>>)
  \/ Contains(l, <<FragTransferChecked>>)

\* The three cases, over the set of the lines.
ReferenceArbitrage(lines) ==
  IF \E l \in lines : HasNegative(l) THEN Some(FALSE)
  ELSE IF \E l \in lines : HasPositive(l) THEN Some(TRUE)
  ELSE None

\* C6: for every list of log lines arbitrage_success is false if some line holds
\* the negative phrase, else true if some line holds a positive phrase, else
\* unknown; it depends on the set of the lines only, not on their order.
C6_ArbitrageThreeCases ==
  (pc = "fetch_block_time" /\ IsSome(Unwrap(update.tx.transaction).meta)) =>
     tx.arbitrage_success =
       ReferenceArbitrage(Range(Unwrap(Unwrap(update.tx.transaction).meta).log_messages))

\* A positive line comes before a negative line and the result is false.
C6_Witness ==
  /\ pc = "fetch_block_time"
  /\ IsSome(Unwrap(update.tx.transaction).meta)
  /\ LET logs == Unwrap(Unwrap(update.tx.transaction).meta).log_messages
     IN  /\ Len(logs) = 2
         /\ HasPositive(logs[1]) /\ ~HasNegative(logs[1])
         /\ HasNegative(logs[2])
  /\ tx.arbitrage_success = Some(FALSE)

\* ---------------------------------------------------------------- C7
NoiseIds ==
  { "11111111111111111111111111111111",
    "ComputeBudget111111111111111111111111111111",
    "TokenkegQfeZyiNwAJbNbGKPFXCWuBvf9Ss623VQ5DA",
    "MemoSq4gqABAXKb96qnH8TysNcWxMyWCqXgDLGmfcHr",
    "Memo1UhkJRfHyvLMcVucJwxXeuD728EqVDDwQDxFMNo",
    "MEViEnscUm6tsQRoGd9h6nLQaQspKj7DB2M5FwM3Xvz" }

\* The positions of the instructions whose index resolves to key k.
Resolving(keys, instrs, k) ==
  { i \in DOMAIN instrs :
      /\ instrs[i].program_id_index < Len(keys)
      /\ keys[instrs[i].program_id_index + 1] = k }

\* C7: program_counts holds no noise program; for every other program it holds
\* exactly the number of instructions whose index resolves to that program (no
\* entry when there is none); an index past the key list adds nothing.
C7_InstructionAggregation ==
  (pc = "fetch_block_time" /\ IsSome(MessageOf(Unwrap(update.tx.transaction)))) =>
     LET msg == Unwrap(MessageOf(Unwrap(update.tx.transaction)))
         keys == msg.account_keys
         instrs == msg.instructions
         counts == tx.program_counts
     IN  /\ DOMAIN counts \cap NoiseIds = {}
         /\ DOMAIN counts \subseteq {Bs58Table[k] : k \in Range(keys)}
         /\ \A k \in AccountKeys \ NoiseKeys :
              LET n == Cardinality(Resolving(keys, instrs, k))
              IN  IF n = 0 THEN Bs58Table[k] \notin DOMAIN counts
                  ELSE Bs58Table[k] \in DOMAIN counts /\ counts[Bs58Table[k]] = n

\* Two instructions resolve to one program, the key list also holds a noise
\* program that an instruction names.
C7_Witness ==
  /\ pc = "fetch_block_time"
  /\ IsSome(MessageOf(Unwrap(update.tx.transaction)))
  /\ LET msg == Unwrap(MessageOf(Unwrap(update.tx.transaction)))
     IN  /\ msg.account_keys = <<KeyRaydium, KeyMemoLegacy>>
         /\ msg.instructions = <<Instr(0), Instr(0)>>
  /\ tx.program_counts = [p \in {"675kPX9MHTjS2zt1qfr1NYHuzeLXfQM9H24wFSUt1Mp8"} |-> 2]

\* ---------------------------------------------------------------- C8
\* C8: after a successful upsert_burn, the same call once more, at whatever time,
\* leaves the burns table as it is, and the table holds exactly one row for the
\* signature.
C8_MergeIdempotent ==
  (pc = "db" /\ handle_result = "Ok") =>
     /\ \A t \in Instants : upsert_burn_rows(burns, tx, t) = burns
     /\ Cardinality({r \in burns : r.signature = tx.signature_b58}) = 1

\* The call updated a stored row (it carried no block_time, the row holds one)
\* while the table also holds the row of another signature.
C8_Witness ==
  /\ pc = "db" /\ handle_result = "Ok"
  /\ \E r \in burns :
       /\ r.signature = tx.signature_b58
       /\ ~IsSome(tx.block_time) /\ IsSome(r.block_time)
  /\ Cardinality(burns) = 2

\* ---------------------------------------------------------------- C9
StoredOpt(r) == << r.block_time, r.compute_units, r.arbitrage_success >>
IncomingOpt(a) == << a.block_time, a.compute_units, a.arbitrage_success >>

\* C9: a stored optional field that holds a value still holds one after any
\* upsert_burn, and an upsert_burn that carries no value for the field leaves
\* the stored value as it was.
C9_NeverNulled ==
  [][ \A r \in burns : \E r2 \in burns' :
        /\ r2.signature = r.signature
        /\ \A f \in 1..3 :
             /\ IsSome(StoredOpt(r)[f]) => IsSome(StoredOpt(r2)[f])
             /\ (handle_result' = "Ok" /\ tx'.signature_b58 = r.signature
                  /\ ~IsSome(IncomingOpt(tx')[f])) => StoredOpt(r2)[f] = StoredOpt(r)[f] ]_vars

\* A call without block_time, compute_units and arbitrage_success found all
\* three stored.
C9_Witness ==
  /\ pc = "db" /\ handle_result = "Ok"
  /\ IncomingOpt(tx) = << None, None, None >>
  /\ \E r \in burns :
       /\ r.signature = tx.signature_b58
       /\ \A f \in 1..3 : IsSome(StoredOpt(r)[f])

\* ---------------------------------------------------------------- C10
\* C10: a stored optional field that holds a value keeps that value through any
\* upsert_burn: an incoming value replaces only an absent one.
C10_FillIfAbsent ==
  [][ \A r \in burns : \E r2 \in burns' :
        /\ r2.signature = r.signature
        /\ \A f \in 1..3 :
             IsSome(StoredOpt(r)[f]) => StoredOpt(r2)[f] = StoredOpt(r)[f] ]_vars

\* ---------------------------------------------------------------- C11
\* C11: after every successful upsert_burn, whatever calls came before it, the
\* row of the signature holds the slot, success, fee_lamports and fee_payer of
\* that call.
C11_LatestWins ==
  (pc = "db" /\ handle_result = "Ok") =>
     /\ \E r \in burns : r.signature = tx.signature_b58
     /\ \A r \in burns :
        r.signature = tx.signature_b58 =>
           /\ r.slot = tx.slot
           /\ r.success = tx.success
           /\ r.fee_lamports = tx.fee_lamports
           /\ r.fee_payer = tx.fee_payer_b58

\* The last call (slot 8, failed, fee 5000, a fee payer, no compute_units) found
\* a row that an earlier call had written with compute_units.
C11_Witness ==
  /\ pc = "db" /\ handle_result = "Ok"
  /\ tx.slot = 8 /\ ~tx.success /\ tx.fee_lamports = 5000 /\ tx.fee_payer_b58 = Pid(KeyBot)
  /\ tx.compute_units = None
  /\ \E r \in burns :
       /\ r.signature = tx.signature_b58
       /\ r.compute_units = Some(300)
       /\ r.slot = 8 /\ ~r.success /\ r.fee_lamports = 5000

\* ---------------------------------------------------------------- the other two tables on their own
\* The arguments of upsert_tx_failure: two labels, two slots, with and without
\* ts for one signature; one fixed call for a second signature.
FailureLabels == {classify_error_bytes(<<4, 0, 0, 0>>), classify_error_bytes(<<255>>)}

FailureArgsOf(sig, label, slot, ts) ==
  [call |-> "upsert_tx_failure", signature_b58 |-> Pid(sig), error_type |-> label,
   slot |-> slot, ts |-> ts]

FailureArgs ==
  {FailureArgsOf(<<1>>, l, s, ts) : l \in FailureLabels, s \in {7, 8}, ts \in {None, Some(11)}}
  \cup {FailureArgsOf(<<2>>, classify_error_bytes(<<255>>), 7, Some(11))}

\* The arguments of upsert_tx_instructions: every map from a set of the two
\* programs to the counts 1 and 2 (the empty map too) for one signature; one
\* fixed call for a second signature.
CountMaps ==
  UNION { [ps -> {1, 2}] : ps \in SUBSET {Pid(KeyRaydium), Pid(KeyJupiter)} }

InstructionArgsOf(sig, counts) ==
  [call |-> "upsert_tx_instructions", signature_b58 |-> Pid(sig), program_counts |-> counts]

InstructionArgs ==
  {InstructionArgsOf(<<1>>, c) : c \in CountMaps}
  \cup {InstructionArgsOf(<<2>>, [p \in {Pid(KeyRaydium)} |-> 1])}

\* db.rs 119-141: a call of upsert_tx_failure that returns Ok. tx keeps its
\* arguments and the rows the statement conflicted with.
CallUpsertTxFailure ==
  /\ pc = "db"
  /\ \E a \in FailureArgs, t \in Instants :
       /\ tx' = [args |-> a,
                 found |-> {r \in tx_failures : r.signature = a.signature_b58}]
       /\ tx_failures' =
            upsert_tx_failure_rows(tx_failures, a.signature_b58, a.error_type, a.slot, a.ts, t)
  /\ handle_result' = "Ok"
  /\ UNCHANGED << pc, main_pc, sessionVars, update, sent, todo, burns, tx_instructions >>

\* db.rs 126, 136, 139: the pool, the prepare or the execute fails; nothing is
\* written.
CallUpsertTxFailureFails ==
  /\ pc = "db"
  /\ tx' = NoTx
  /\ handle_result' = "Err: upsert_tx_failure"
  /\ UNCHANGED << pc, main_pc, sessionVars, update, sent, todo, dbVars >>

\* db.rs 143-166: a call of upsert_tx_instructions. It executes the statement
\* for the entries ps: all of them and returns Ok (at once for an empty list),
\* or those before the failing await and returns the error, which may be the
\* pool's or the prepare's (none written) or an execute's.
CallUpsertTxInstructions ==
  /\ pc = "db"
  /\ \E a \in InstructionArgs :
     \E ps \in SUBSET DOMAIN a.program_counts :
       /\ tx_instructions' =
            upsert_tx_instructions_rows(tx_instructions, a.signature_b58, a.program_counts, ps)
       /\ IF ps = DOMAIN a.program_counts
          THEN /\ tx' = [args |-> a,
                         found |-> {r \in tx_instructions :
                                      /\ r.signature = a.signature_b58
                                      /\ r.program_id \in DOMAIN a.program_counts}]
               /\ handle_result' = "Ok"
          ELSE /\ tx' = NoTx
               /\ handle_result' = IF ps = {} THEN "Err: prepare" ELSE "Err: execute"
  /\ UNCHANGED << pc, main_pc, sessionVars, update, sent, todo, burns, tx_failures >>

SpecRecords ==
  InitDb /\ [][CallUpsertTxFailure \/ CallUpsertTxFailureFails \/ CallUpsertTxInstructions]_vars

\* ---------------------------------------------------------------- C12
\* C12: after a successful upsert_tx_failure, whatever row the signature had,
\* the table holds exactly one row for the signature, with the error_type and
\* slot of this call; after a successful upsert_tx_instructions, the table
\* holds, for every program of the call, exactly one row for (signature,
\* program), with the count of this call.
C12_OverwritePerKey ==
  (pc = "db" /\ handle_result = "Ok") =>
     LET a == tx.args
     IN  IF a.call = "upsert_tx_failure"
         THEN /\ Cardinality({r \in tx_failures : r.signature = a.signature_b58}) = 1
              /\ \A r \in tx_failures :
                   r.signature = a.signature_b58 =>
                      r.error_type = a.error_type /\ r.slot = a.slot
         ELSE \A p \in DOMAIN a.program_counts :
                /\ Cardinality({r \in tx_instructions :
                                  r.signature = a.signature_b58 /\ r.program_id = p}) = 1
                /\ \A r \in tx_instructions :
                     (r.signature = a.signature_b58 /\ r.program_id = p) =>
                        r.num_instructions = a.program_counts[p]

\* The second upsert_tx_failure of a signature carried another error_type and
\* another slot than the row it found.
C12_Witness ==
  /\ pc = "db" /\ handle_result = "Ok"
  /\ tx.args.call = "upsert_tx_failure"
  /\ \E old \in tx.found :
       /\ old.error_type # tx.args.error_type
       /\ old.slot # tx.args.slot
  /\ \E r \in tx_failures : r.signature = tx.args.signature_b58 /\ r.error_type = tx.args.error_type

\* ---------------------------------------------------------------- handle_tx, one message to the end
\* The messages: without payload; with a payload without metadata or with
\* metadata of a success or of a failure whose error payload is empty, decodes,
\* or does not decode; without inner transaction, without message, or with a
\* message whose instructions name no program, only noise programs, programs
\* out of range, or other programs.
TxErrs ==
  { None, Some([err |-> <<>>]), Some([err |-> <<4, 0, 0, 0>>]), Some([err |-> <<255>>]) }
TxMetas ==
  {None} \cup
  {Some(Meta(e, 5000, cu, logs)) :
     e \in TxErrs, cu \in {None, Some(300)}, logs \in {<<>>, << <<FragSwap>> >>}}
TxKeys == <<KeyBot, KeyRaydium, KeySystem, KeyJupiter>>
TxInstrs ==
  { <<>>, <<Instr(2)>>, <<Instr(9)>>, <<Instr(1), Instr(1)>>, <<Instr(1), Instr(3), Instr(2)>> }
TxInners ==
  { None, Some([message |-> None]), Some([message |-> Some(Message(<<>>, <<Instr(0)>>))]) }
  \cup { Some([message |-> Some(Message(TxKeys, is))]) : is \in TxInstrs }
TxUpdates ==
  {TxUpdate(7, None)} \cup
  {TxUpdate(7, Some(Info(<<1>>, m, i))) : m \in TxMetas, i \in TxInners}

\* handle_tx processes one message, from the call to the return.
SpecTx == (\E u \in TxUpdates : InitHandleTx(u)) /\ [][HandleTx]_vars

\* ---------------------------------------------------------------- C13
\* The rows of the instructions of the processed message: one for every program
\* outside the noise set that an instruction resolves to, with the number of
\* those instructions.
InstructionRowsOf(tx_update) ==
  LET wrapped == Unwrap(tx_update.transaction)
      msg == MessageOf(wrapped)
  IN  IF ~IsSome(msg) THEN {}
      ELSE LET keys == Unwrap(msg).account_keys
               instrs == Unwrap(msg).instructions
           IN  { [signature |-> Bs58Encode(wrapped.signature),
                  program_id |-> Bs58Table[k],
                  num_instructions |-> Cardinality(Resolving(keys, instrs, k))] :
                 k \in {k \in AccountKeys : /\ Bs58Table[k] \notin NoiseIds
                                            /\ Resolving(keys, instrs, k) # {}} }

NoMetadata(u) ==
  /\ u.kind = "transaction"
  /\ IsSome(u.tx.transaction)
  /\ ~IsSome(Unwrap(u.tx.transaction).meta)

\* C13 as stated: a message with a payload and no metadata, processed without
\* error, leaves a burn row with success = true and fee_lamports = 0, no
\* failure row and no instruction row, whatever its instructions are.
C13_MissingMetadata ==
  (pc = "next" /\ handle_result = "Ok" /\ NoMetadata(update)) =>
     /\ \E r \in burns : r.success /\ r.fee_lamports = 0
     /\ tx_failures = {}
     /\ tx_instructions = {}

\* C13 amended: a message with a payload and no metadata, processed without
\* error, leaves a burn row with success = true and fee_lamports = 0 and no
\* failure row; its instruction rows are those of its instructions: one for
\* every program outside the noise set that an instruction resolves to, none
\* only if there is no such program.
C13_MissingMetadataAmended ==
  (pc = "next" /\ handle_result = "Ok" /\ NoMetadata(update)) =>
     /\ burns # {}
     /\ \A r \in burns :
          /\ r.signature = Bs58Encode(Unwrap(update.tx.transaction).signature)
          /\ r.success /\ r.fee_lamports = 0
          /\ r.compute_units = None /\ r.arbitrage_success = None
     /\ tx_failures = {}
     /\ tx_instructions = InstructionRowsOf(update.tx)

\* A message without metadata whose instructions name a program outside the
\* noise set twice has been processed: a burn row, and an instruction row.
C13_Witness ==
  /\ pc = "next" /\ handle_result = "Ok" /\ NoMetadata(update)
  /\ \E r \in burns : r.success /\ r.fee_lamports = 0
  /\ tx_failures = {}
  /\ \E r \in tx_instructions : r.program_id = Pid(KeyRaydium) /\ r.num_instructions = 2

\* ---------------------------------------------------------------- C14
\* Whether the outcome of the message in process indicates failure.
Failed(u) ==
  /\ u.kind = "transaction"
  /\ IsSome(u.tx.transaction)
  /\ IsSome(Unwrap(u.tx.transaction).meta)
  /\ IsSome(Unwrap(Unwrap(u.tx.transaction).meta).err)

\* The labels of the error payloads of TxErrs: the Debug form of the decoded
\* variant, the Unknown fallback, the Debug form of the error when the payload
\* is empty.
ExpectedLabel(bytes) ==
  CASE bytes = <<4, 0, 0, 0>> -> "InsufficientFundsForFee"
    [] bytes = <<255>> -> "Unknown([255])"
    [] bytes = <<>> -> "TransactionError { err: [] }"

\* C14: upsert_tx_failure is called only right after the burn upsert of a
\* failed transaction has succeeded, and after every successful burn upsert of
\* a failed transaction; the label it is given, and writes, is not empty: the
\* decoded variant, the Unknown fallback, or the debug form.
C14_FailureIffFailed ==
  [][ /\ (pc # "upsert_tx_failure" /\ pc' = "upsert_tx_failure") =>
           /\ pc = "upsert_burn" /\ Failed(update)
           /\ \E r \in burns' : r.signature = tx.signature_b58 /\ ~r.success
           /\ IsSome(tx'.error_type)
           /\ Len(Unwrap(tx'.error_type)) > 0
           /\ Unwrap(tx'.error_type) =
                ExpectedLabel(Unwrap(Unwrap(Unwrap(update.tx.transaction).meta).err).err)
      /\ (pc = "upsert_burn" /\ ~IsErr(handle_result')) =>
           (pc' = "upsert_tx_failure" <=> Failed(update))
      /\ (tx_failures' # tx_failures) =>
           /\ pc = "upsert_tx_failure"
           /\ \E r \in tx_failures' :
                r.error_type = Unwrap(tx.error_type) /\ Len(r.error_type) > 0 ]_vars

\* The burn upsert of a failed transaction with an empty error payload has
\* succeeded, and upsert_tx_failure has written the debug form.
C14_Witness ==
  /\ Failed(update)
  /\ Unwrap(Unwrap(Unwrap(update.tx.transaction).meta).err).err = <<>>
  /\ \E r \in burns : ~r.success
  /\ \E r \in tx_failures : r.error_type = "TransactionError { err: [] }"

\* ---------------------------------------------------------------- C15
\* C15: handle_tx of a transaction message without payload returns Ok in one
\* step, to the read of the same session: it passes no lookup and no upsert,
\* keeps no locals, and leaves the three tables as they are.
C15_MalformedSkipped ==
  [][ (pc = "handle_tx" /\ ~IsSome(update.tx.transaction)) =>
        /\ pc' = "next"
        /\ handle_result' = "Ok"
        /\ tx' = NoTx /\ todo' = {}
        /\ burns' = burns /\ tx_failures' = tx_failures /\ tx_instructions' = tx_instructions
        /\ attempts' = attempts /\ session_end' = session_end /\ update' = update ]_vars

\* A message without payload was skipped while the tables held rows.
C15_Witness ==
  /\ pc = "next" /\ update = TxUpdate(7, None) /\ handle_result = "Ok"
  /\ burns # {} /\ tx_failures # {} /\ tx_instructions # {}

\* ---------------------------------------------------------------- C16
PersistencePcs ==
  {"upsert_burn", "upsert_tx_failure", "upsert_tx_instructions", "execute_instruction"}

\* C16: the calls come in the order burn, failure, instructions, and each table
\* is written only by its own call; when a call fails, handle_tx returns at
\* once to the read of the same session: the call is not made again, no later
\* call of the message is made, and the tables stay as they are, with the rows
\* the message has written.
C16_FailureDropsRest ==
  [][ /\ (pc' = "upsert_burn") => pc = "fetch_block_time"
      /\ (pc' = "upsert_tx_failure") => pc = "upsert_burn"
      /\ (pc' = "upsert_tx_instructions") => pc \in {"upsert_burn", "upsert_tx_failure"}
      /\ (pc' = "execute_instruction") =>
            pc \in {"upsert_tx_instructions", "execute_instruction"}
      /\ (burns' # burns) => pc = "upsert_burn"
      /\ (tx_failures' # tx_failures) => pc = "upsert_tx_failure"
      /\ (tx_instructions' # tx_instructions) => pc = "execute_instruction"
      /\ (pc \in PersistencePcs /\ IsErr(handle_result')) =>
            /\ pc' = "next"
            /\ tx' = NoTx /\ todo' = {}
            /\ burns' = burns /\ tx_failures' = tx_failures
            /\ tx_instructions' = tx_instructions
            /\ attempts' = attempts /\ session_end' = session_end /\ update' = update
      /\ (pc \in PersistencePcs) => ~IsErr(handle_result) ]_vars

\* upsert_tx_failure failed for a failed transaction with instructions: its
\* burn row is written, no failure row and no instruction row is.
C16_Witness ==
  /\ pc = "next" /\ handle_result = "Err: upsert_tx_failure"
  /\ IsSome(MessageOf(Unwrap(update.tx.transaction)))
  /\ \E r \in burns : ~r.success
  /\ tx_failures = {} /\ tx_instructions = {}

\* ---------------------------------------------------------------- C17
\* C17: a message is read only at the read of the loop, when no handle_tx is in
\* process (no locals, no entries to write); while a message is in process no
\* other is read, and every row written carries the signature of the message
\* read last.
C17_Sequential ==
  [][ /\ (pc = "next") => (tx = NoTx /\ todo = {})
      /\ (pc' \in {"handle_tx", "pong"}) => pc = "next"
      /\ (update' # update /\ update' # NoUpdate) => pc = "next"
      /\ (pc \in {"handle_tx", "fetch_block_time"} \cup PersistencePcs) => update' = update
      /\ (pc \in {"fetch_block_time"} \cup PersistencePcs) =>
            tx.signature_b58 = Bs58Encode(Unwrap(update.tx.transaction).signature)
      /\ (burns' # burns \/ tx_failures' # tx_failures \/ tx_instructions' # tx_instructions) =>
            \A r \in (burns' \ burns) \cup (tx_failures' \ tx_failures)
                     \cup (tx_instructions' \ tx_instructions) :
               r.signature = Bs58Encode(Unwrap(update.tx.transaction).signature) ]_vars

\* The failed message is processed to the end (its failure row is written), the
\* message read after it (a success) is in the instruction loop.
C17_Witness ==
  /\ pc = "execute_instruction" /\ tx.success
  /\ tx_failures # {}
  /\ \E r \in burns : r.success

\* ---------------------------------------------------------------- C18
\* C18: the lookup is made once per message; whatever its outcome, handle_tx
\* goes on to the burn upsert without an error, with block_time absent when
\* the lookup failed; a burn upsert with block_time absent keeps the
\* block_time the row holds.
C18_EnrichmentTolerated ==
  [][ /\ (pc = "fetch_block_time") =>
            /\ pc' = "upsert_burn"
            /\ handle_result' = handle_result /\ ~IsErr(handle_result')
            /\ tx'.block_time \in {ResultOk(fetch_block_time(o)) : o \in FetchOutcomes}
            /\ \A o \in FetchOutcomes :
                 o.kind # "result" => ResultOk(fetch_block_time(o)) = None
      /\ (pc' = "fetch_block_time") => pc = "handle_tx"
      /\ (pc = "upsert_burn" /\ tx.block_time = None /\ ~IsErr(handle_result')) =>
            /\ \E r2 \in burns' : r2.signature = tx.signature_b58
            /\ \A r \in burns : \A r2 \in burns' :
                 (r.signature = tx.signature_b58 /\ r2.signature = tx.signature_b58) =>
                    r2.block_time = r.block_time ]_vars

\* The lookup failed for a redelivered signature whose row holds a block_time:
\* the burn upsert is done and the row still holds it.
C18_Witness ==
  /\ pc \in {"upsert_tx_failure", "upsert_tx_instructions"}
  /\ tx.block_time = None
  /\ \E r \in burns : r.signature = tx.signature_b58 /\ r.block_time = Some(11)

\* ---------------------------------------------------------------- the process
\* The ingest task and main.
NextMain == Next \/ Main

\* The runtime keeps running the ingest task (every await of it completes:
\* the timer fires, the upstream, the node and the database answer or fail),
\* and resumes main when the task it joins has completed. No fairness is put
\* on the arrival of the signal.
FairSpecMain ==
  /\ Init /\ [][NextMain]_vars
  /\ WF_vars(Next)
  /\ WF_vars(main_pc = "join" /\ Main)

\* ---------------------------------------------------------------- C19
\* C19: once the shutdown signal is received (main is past ctrl_c and joins
\* the ingest task), main eventually returns.
C19_ShutdownTerminates == (main_pc = "join") ~> (main_pc = "returned")

\* ---------------------------------------------------------------- C20
\* The session with every persistence call succeeding: no step makes handle_tx
\* fail.
NextReliable == Next /\ ~IsErr(handle_result')

SpecReliable == Init /\ [][NextReliable]_vars

\* C20: every signature with a failure row has a burn row with success =
\* false.
C20_FailuresAgreeWithBurns ==
  \A f \in tx_failures :
     \E b \in burns : b.signature = f.signature /\ ~b.success
====
